---- MODULE Spec2Model ----
(***************************************************************************)
(* A model of the Smart Arm backend ("Backend python/main.py" and          *)
(* "Backend python/vision_tracking.py"): the shared system status, the     *)
(* broker callbacks, the outbound command API served by the HTTP threads,  *)
(* the perception worker and its buffer, the handoff to the WebSocket      *)
(* loop and the broadcast rounds over the set of WebSocket clients.        *)
(*                                                                         *)
(* Threads of the program: the HTTP threads (Flask, threaded=True), the    *)
(* broker client's thread (loop_start), the perception worker              *)
(* (_tracking_loop) and the thread that runs the asyncio loop              *)
(* (run_websocket).  Every action below is one uninterrupted run of one    *)
(* of these threads between two points where another thread, or another    *)
(* task of the asyncio loop, may run.                                      *)
(***************************************************************************)
EXTENDS Integers, Sequences, FiniteSets, TLC

VARIABLES
    system_status,      \* SmartArmBackend.system_status (main.py 30-40)
    mqtt_client,        \* SmartArmBackend.mqtt_client: "None" or "client"
    broker,             \* the client's connection to the broker (link) and
                        \* the thread that runs its callbacks (loop)
    published,          \* what was published on smartarm/control, in order
    http,               \* per HTTP thread: the request it is serving
    last_msg,           \* the last controller message on_mqtt_message handled
    msg_count,          \* how many messages on_mqtt_message has handled
    last_update,        \* the last payload on_mqtt_message applied to the status
    msg_outcome,        \* how the last on_mqtt_message ended
    status_read,        \* what the last status read returned
    is_running,         \* VisionTracker.is_running
    detection_callback, \* VisionTracker.detection_callback: "None" or the hook
    tracking_thread,    \* VisionTracker.tracking_thread: NoThread or a worker
    worker,             \* per worker thread: where it is in _tracking_loop
    cycle,              \* how many frames the capture device has delivered
    current_frame,      \* VisionTracker.current_frame
    detections,         \* VisionTracker.detections
    stop,               \* the call of stop_tracking in progress, and how many
                        \* have returned since tracking was last started
    cap,                \* VisionTracker.cap, the capture device: "open" or
                        \* "released"
    frame_lock,         \* VisionTracker.frame_lock: the thread that holds it
    reader,             \* the thread in get_annotated_frame
    annotated,          \* what the last get_annotated_frame worked on
    closest,            \* the last call of find_closest_object and its result
    loop_tasks,         \* the tasks created on the asyncio loop, not yet run
    handoff,            \* per calling thread: how its last create_task ended
    unserved,           \* a handoff was attempted and no round has begun since
    websocket_clients,  \* SmartArmBackend.websocket_clients
    conn,               \* per WebSocket connection: "none", "open" or "closed"
    handler,            \* per connection: where its websocket_handler is
    received,           \* per connection: the messages delivered to it
    round,              \* the broadcast round in progress, or the last one
    rounds              \* how many broadcast rounds have begun

brokerVars ==
    <<mqtt_client, broker, last_msg, msg_count, last_update, msg_outcome>>

httpVars == <<published, http>>

visionVars == <<is_running, detection_callback, tracking_thread, worker, cycle,
                current_frame, detections, stop, cap, frame_lock>>

readerVars == <<reader, annotated, closest>>

relayVars == <<loop_tasks, handoff, unserved>>

bcastVars == <<websocket_clients, conn, handler, received, round, rounds>>

vars == <<system_status, brokerVars, httpVars, status_read, visionVars,
          readerVars, relayVars, bcastVars>>

----------------------------------------------------------------------------
(* Bounds of the model. *)

MaxPublished == 3

MaxMessages == 2

MaxCycles == 2

MaxRounds == 1

MaxDetections == 3

----------------------------------------------------------------------------
(* Values. *)

\* main.py 35, 194: the default servo angles
DefaultServos == <<90, 90, 90, 90, 90>>

\* main.py 36, 195: the default distance, in tenths of a centimetre
DefaultDistance == 0

\* main.py 37, 196: the default motor speed
DefaultMotorSpeed == 0

\* An optional value is a set with at most one element ({} is None / absent).
Some(v) == {v}

TheValue(opt) == CHOOSE v \in opt : TRUE

\* dict.get(key, default) on an optional field of a decoded payload
PayloadGet(opt, default) == IF opt = {} THEN default ELSE TheValue(opt)

\* main.py 30-40: the status after construction
InitialStatus ==
    [mode             |-> "auto",
     vision_active    |-> FALSE,
     mqtt_connected   |-> FALSE,
     last_detection   |-> {},
     servo_angles     |-> DefaultServos,
     distance_cm      |-> DefaultDistance,
     motor_speed      |-> DefaultMotorSpeed,
     grab_count       |-> 0,
     error_message    |-> ""]

HttpThreads == {"t1", "t2"}

\* A request on an HTTP thread: where it stands, the method it calls, the
\* command it hands to the client, what client.publish made of it (rc), and
\* what the method returned.
IdleRequest ==
    [pc |-> "idle", op |-> "none", cmd |-> <<>>, rc |-> "none", result |-> "none"]

\* The values a set_mode request may carry (main.py 66): the two modes and one
\* that is neither.
ModeArgs == {"auto", "manual", "turbo"}

\* The values of a request's keys (main.py 71-72, 77): data.get gives the
\* number sent, or None for servo_id when the key is missing
ServoIds == {Some(2), {}}

Angles == {Some(45)}

Speeds == {Some(3)}

\* Payloads of the messages the broker delivers on smartarm/status: a JSON
\* object whose three fields are each present or absent, or a payload that is
\* not a JSON object.  Distances are in tenths of a centimetre (12.5 is 125).
ServoPayloads == {<<10, 20, 30, 40, 50>>, <<1, 2>>}

DistancePayloads == {125}

MotorPayloads == {3}

ObjectPayloads ==
    [json : {"object"},
     servos : {{}} \cup {Some(s) : s \in ServoPayloads},
     distance : {{}} \cup {Some(d) : d \in DistancePayloads},
     motor_speed : {{}} \cup {Some(m) : m \in MotorPayloads}]

MalformedPayloads ==
    [json : {"invalid", "array"}, servos : {{}}, distance : {{}},
     motor_speed : {{}}]

Payloads == ObjectPayloads \cup MalformedPayloads

StatusTopic == "smartarm/status"

\* The threads _tracking_loop may run on: start_tracking makes a new one each
\* time it starts the loop (vision_tracking.py 74).
Workers == {1, 2}

\* hasattr(self, 'tracking_thread') is false (vision_tracking.py 81)
NoThread == 0

IdleWorker == [pc |-> "none", frame |-> 0, dets |-> <<>>]

\* A detection (vision_tracking.py 142-152), as its id and its relative
\* position in tenths of the frame; the list of one cycle carries the cycle's
\* number, which stands for the timestamps of its detections.
Detection(i, x, y) == [id |-> i, relative_position |-> <<x, y>>]

DetectionLists ==
    {<<>>, <<Detection(0, 1, 1)>>, <<Detection(0, 1, 1), Detection(1, 9, 9)>>}

\* vision_tracking.py 28: self.detections = []
NoDetections == [cycle |-> 0, objs |-> <<>>]

\* No call of stop_tracking in progress, none returned
NoStop == [pc |-> "idle", returned |-> 0, timed_out |-> FALSE]

\* Before initialize_mqtt: no connection, no thread for the callbacks
NoBroker == [link |-> "down", loop |-> "none"]

IdleReader == [pc |-> "idle", frame |-> 0]

\* The relative positions of the detections find_closest_object is given, and
\* the targets, in tenths of the frame
Positions == {<<1, 1>>, <<9, 9>>, <<5, 4>>}

Targets == {<<5, 5>>, <<9, 9>>}

\* vision_tracking.py 129-154: the list built from the boxes in `ps`, where
\* the id of a detection is its index in the list
ListOf(ps) == [k \in 1..Len(ps) |-> Detection(k - 1, ps[k][1], ps[k][2])]

ClosestLists ==
    {ListOf(ps) : ps \in UNION {[1..n -> Positions] : n \in 0..MaxDetections}}

\* The threads that call asyncio.create_task: the broker client's thread
\* (main.py 200) and the perception worker (main.py 229).  The asyncio loop
\* runs on a third thread (main.py 370-377).
CallingThreads == {"broker", "worker"}

LoopThread == "websocket"

\* The WebSocket connections that may be accepted, numbered in the order in
\* which they are accepted; each is accepted once (a new connection is a new
\* object).
Connections == {1, 2, 3}

NoConnection == 0

\* main.py 288-291, 310-313: json.dumps({'type': 'status', 'data': status}),
\* as what it carries; round is the number of the round that sent it (0: the
\* first message to a new connection)
StatusMessage(st, n) ==
    [type |-> "status", status |-> Some(st), detections |-> {}, round |-> n]

\* main.py 329-332: json.dumps({'type': 'detections', 'data': detections})
DetectionsMessage(d, n) ==
    [type |-> "detections", status |-> {}, detections |-> Some(d), round |-> n]

NoMessage == [type |-> "none", status |-> {}, detections |-> {}, round |-> 0]

IdleHandler == [pc |-> "none", first |-> NoMessage]

IdleRound ==
    [pc |-> "idle", message |-> NoMessage, members |-> {}, visited |-> {},
     current |-> NoConnection, disconnected |-> {}, joined |-> FALSE, left |-> FALSE]

\* The lists broadcast_detections may be called with
BroadcastLists == {[cycle |-> 1, objs |-> <<Detection(0, 1, 1)>>]}

----------------------------------------------------------------------------
(* Pure helpers. *)

\* str.upper() on the two modes (main.py 238)
Upper(mode) ==
    CASE mode = "auto" -> "AUTO"
      [] mode = "manual" -> "MANUAL"
      [] OTHER -> "?"

\* main.py 238: f"MODE {mode.upper()}", as the words of the command
ModeCommand(mode) == <<"MODE", Upper(mode)>>

\* A value in an f-string (main.py 249, 261): str() of it
Format(v) == IF v = {} THEN "None" ELSE ToString(TheValue(v))

\* main.py 249: f"SERVO {servo_id} {angle}"
ServoCommand(servo_id, angle) == <<"SERVO", Format(servo_id), Format(angle)>>

\* main.py 261: f"MOTOR {speed}"
MotorCommand(speed) == <<"MOTOR", Format(speed)>>

ValidModeAny(mode) == TRUE

\* main.py 233: mode in ['auto', 'manual']
ValidMode(mode) == mode \in {"auto", "manual"}

\* main.py 241, 251, 263, 271, 278: what the method returns once it has
\* called client.publish
ReturnedAfterPublish(op) == IF op = "set_mode" THEN "none" ELSE "True"

\* main.py 245, 257: the guard of the manual commands, on the mode it reads
ManualAllowedAlways(mode) == TRUE

ManualAllowed(mode) == mode = "manual"

\* main.py 193-197: system_status.update({...}) with the decoded payload
ApplyStatusUpdateClobber(st, p) ==
    [st EXCEPT !.servo_angles = PayloadGet(p.servos, DefaultServos),
               !.distance_cm = PayloadGet(p.distance, DefaultDistance),
               !.motor_speed = PayloadGet(p.motor_speed, DefaultMotorSpeed),
               !.mode = "auto"]

ApplyStatusUpdatePartial(st, p) ==
    [st EXCEPT !.servo_angles = PayloadGet(p.servos, DefaultServos),
               !.distance_cm = PayloadGet(p.distance, DefaultDistance)]

ApplyStatusUpdate(st, p) ==
    [st EXCEPT !.servo_angles = PayloadGet(p.servos, DefaultServos),
               !.distance_cm = PayloadGet(p.distance, DefaultDistance),
               !.motor_speed = PayloadGet(p.motor_speed, DefaultMotorSpeed)]

\* main.py 189: json.loads(msg.payload.decode()) succeeds
Decodes(p) == p.json \in {"object", "array"}

\* main.py 194-196: payload.get exists, i.e. the decoded value is a dict
HasGet(p) == p.json = "object"

\* vision_tracking.py 208: the distance of a detection from the target, as its
\* square (np.sqrt is increasing, and distances are only compared)
Distance(pos, target) ==
    (pos[1] - target[1]) * (pos[1] - target[1])
        + (pos[2] - target[2]) * (pos[2] - target[2])

\* vision_tracking.py 210: distance < min_distance, min_distance being
\* float('inf') ({}) until a detection has been taken
CloserOrEqual(distance, min_distance) ==
    min_distance = {} \/ distance <= TheValue(min_distance)

Closer(distance, min_distance) ==
    min_distance = {} \/ distance < TheValue(min_distance)

\* vision_tracking.py 206-212: the loop over the detections from the k-th on
RECURSIVE ScanDetections(_, _, _, _, _)
ScanDetections(dets, k, target, min_distance, closest_object) ==
    IF k > Len(dets)
       THEN closest_object
       ELSE LET distance == Distance(dets[k].relative_position, target) IN
            IF Closer(distance, min_distance)
               THEN ScanDetections(dets, k + 1, target, Some(distance),
                                   Some(dets[k]))
               ELSE ScanDetections(dets, k + 1, target, min_distance,
                                   closest_object)

\* vision_tracking.py 197-214: None ({}) for no detections, else the scan
find_closest_object(dets, target) ==
    IF dets = <<>> THEN {} ELSE ScanDetections(dets, 1, target, {}, {})

\* main.py 189-197: what the decoding of the payload and the building of the
\* update raise: json.loads for a payload that is not JSON, payload.get for a
\* decoded value that is not a dict
Raised(topic, p) ==
    IF ~Decodes(p) THEN "JSONDecodeError"
    ELSE IF topic = StatusTopic /\ ~HasGet(p) THEN "AttributeError"
    ELSE "none"

\* main.py 202: except Exception
ExceptCatchesDecodeErrors(exc) == exc = "JSONDecodeError"

ExceptCatches(exc) == TRUE

\* main.py 186-203: how on_mqtt_message ends when its try block raised exc
Outcome(exc) ==
    IF exc # "none" /\ ~ExceptCatches(exc) THEN "raised" ELSE "returned"

\* main.py 173-183: what on_mqtt_connect makes of mqtt_connected
ConnectedAfterAny(rc) == TRUE

ConnectedAfter(rc) == rc = 0

\* vision_tracking.py 110: if self.detection_callback and detections
HookIsCalledForAny(callback, objs) == callback # "None"

HookIsCalled(callback, objs) == callback # "None" /\ objs # <<>>

\* vision_tracking.py 116-118: where the worker is after an exception in a
\* cycle: the handler is inside the loop, which goes on with its test
AfterExceptLeavesLoop == "exited"

AfterExcept == "test"

\* asyncio.create_task(coro) called on `thread` (main.py 200, 229): it takes
\* the loop running on the calling thread and raises RuntimeError("no running
\* event loop") when there is none; the only loop runs on LoopThread.
CreateTask(thread, tasks, coro) ==
    IF thread = LoopThread
       THEN [raised |-> FALSE, tasks |-> Append(tasks, coro)]
       ELSE [raised |-> TRUE, tasks |-> tasks]

\* main.py 319-321, 337-339: client.send raises ConnectionClosed on a
\* connection that is not open
SendFails(state) == state # "open"

\* main.py 317, 335: the next step of `for client in self.websocket_clients`
\* raises RuntimeError("Set changed size during iteration") when the set's
\* size is not the one it had when the iteration began
IterationBroken(clients, members) == Cardinality(clients) # Cardinality(members)

\* main.py 324, 341: self.websocket_clients -= disconnected
PruneDisconnected(clients, disconnected) == clients \ disconnected

KeptOnExit(holder) == holder

\* vision_tracking.py 96-97, 106-107, 160-161, 165-166: leaving the block of
\* `with self.frame_lock:` releases the lock
ReleasedOnExit(holder) == {}

SendsReturnInAnyOrder(h) == TRUE

\* main.py 288-291 before 319, 337: two sends awaited on one connection; the
\* frame of the send called first is written first, so a round's send to a
\* connection does not return while the handler's first send to it, called
\* when the connection was added, has not
SendsReturnInCallOrder(h) == h.pc # "initial_send"

----------------------------------------------------------------------------
(* The state after construction (SmartArmBackend.__init__). *)

Init ==
    /\ system_status = InitialStatus
    /\ mqtt_client = "None"
    /\ broker = NoBroker
    /\ published = <<>>
    /\ http = [t \in HttpThreads |-> IdleRequest]
    /\ last_msg = {}
    /\ msg_count = 0
    /\ last_update = {}
    /\ msg_outcome = "none"
    /\ status_read = {}
    /\ is_running = FALSE
    /\ detection_callback = "None"
    /\ tracking_thread = NoThread
    /\ worker = [w \in Workers |-> IdleWorker]
    /\ cycle = 0
    /\ current_frame = {}
    /\ detections = NoDetections
    /\ stop = NoStop
    /\ cap = "open"
    /\ frame_lock = {}
    /\ reader = IdleReader
    /\ annotated = {}
    /\ closest = {}
    /\ loop_tasks = <<>>
    /\ handoff = [th \in CallingThreads |-> "none"]
    /\ unserved = FALSE
    /\ websocket_clients = {}
    /\ conn = [c \in Connections |-> "none"]
    /\ handler = [c \in Connections |-> IdleHandler]
    /\ received = [c \in Connections |-> <<>>]
    /\ round = IdleRound
    /\ rounds = 0

----------------------------------------------------------------------------
(* initialize_mqtt (main.py 154-170): the client exists from line 157 on. *)

InitializeMqtt ==
    /\ mqtt_client = "None"
    /\ mqtt_client' = "client"
    /\ broker' = [link |-> "down", loop |-> "running"]
    /\ UNCHANGED <<last_msg, msg_count, last_update, msg_outcome>>
    /\ UNCHANGED <<system_status, httpVars, status_read, visionVars,
                   readerVars, relayVars, bcastVars>>

----------------------------------------------------------------------------
(* The command API, called on an HTTP thread.  A call that publishes takes  *)
(* two steps: up to the publish, and the publish with the return.           *)

NothingButHttp ==
    UNCHANGED <<brokerVars, status_read, visionVars, readerVars, relayVars,
                bcastVars>>

\* main.py 231-241, up to line 238
SetModeCall(t, mode) ==
    /\ http[t].pc = "idle"
    /\ Len(published) < MaxPublished
    /\ IF ValidMode(mode)
          THEN /\ system_status' = [system_status EXCEPT !.mode = mode]
               /\ IF mqtt_client # "None"
                     THEN http' = [http EXCEPT ![t] =
                              [pc |-> "publish", op |-> "set_mode",
                               cmd |-> ModeCommand(mode), rc |-> "none",
                               result |-> "none"]]
                     ELSE http' = [http EXCEPT ![t] =
                              [IdleRequest EXCEPT !.op = "set_mode"]]
          ELSE /\ UNCHANGED system_status
               /\ http' = [http EXCEPT ![t] =
                              [IdleRequest EXCEPT !.op = "set_mode"]]
    /\ UNCHANGED published
    /\ NothingButHttp

\* main.py 243-253, up to line 249
ManualServoCall(t, servo_id, angle) ==
    /\ http[t].pc = "idle"
    /\ Len(published) < MaxPublished
    /\ IF ~ManualAllowed(system_status.mode)
          THEN http' = [http EXCEPT ![t] =
                   [IdleRequest EXCEPT !.op = "manual_servo", !.result = "False"]]
          ELSE IF mqtt_client # "None"
                  THEN http' = [http EXCEPT ![t] =
                           [pc |-> "publish", op |-> "manual_servo",
                            cmd |-> ServoCommand(servo_id, angle),
                            rc |-> "none", result |-> "none"]]
                  ELSE http' = [http EXCEPT ![t] =
                           [IdleRequest EXCEPT !.op = "manual_servo",
                                               !.result = "False"]]
    /\ UNCHANGED <<system_status, published>>
    /\ NothingButHttp

\* main.py 255-265, up to line 261
ManualMotorCall(t, speed) ==
    /\ http[t].pc = "idle"
    /\ Len(published) < MaxPublished
    /\ IF ~ManualAllowed(system_status.mode)
          THEN http' = [http EXCEPT ![t] =
                   [IdleRequest EXCEPT !.op = "manual_motor", !.result = "False"]]
          ELSE IF mqtt_client # "None"
                  THEN http' = [http EXCEPT ![t] =
                           [pc |-> "publish", op |-> "manual_motor",
                            cmd |-> MotorCommand(speed), rc |-> "none",
                            result |-> "none"]]
                  ELSE http' = [http EXCEPT ![t] =
                           [IdleRequest EXCEPT !.op = "manual_motor",
                                               !.result = "False"]]
    /\ UNCHANGED <<system_status, published>>
    /\ NothingButHttp

\* main.py 267-272 (emergency_stop) and 274-279 (move_to_home), up to the publish
FixedCommandCall(t, op, word) ==
    /\ http[t].pc = "idle"
    /\ Len(published) < MaxPublished
    /\ IF mqtt_client # "None"
          THEN http' = [http EXCEPT ![t] =
                   [pc |-> "publish", op |-> op, cmd |-> <<word>>,
                    rc |-> "none", result |-> "none"]]
          ELSE http' = [http EXCEPT ![t] =
                   [IdleRequest EXCEPT !.op = op, !.result = "False"]]
    /\ UNCHANGED <<system_status, published>>
    /\ NothingButHttp

EmergencyStopCall(t) == FixedCommandCall(t, "emergency_stop", "STOP")

MoveToHomeCall(t) == FixedCommandCall(t, "move_to_home", "HOME")

\* main.py 239, 250-251, 262-263, 270-271, 277-278: the publish and the return.
\* client.publish sends the command (sent) when the connection to the broker
\* is up; with none it drops the command and says so in the value it returns,
\* which the code does not look at.  set_mode returns nothing; the others return True.
Publish(t, sent) ==
    /\ http[t].pc = "publish"
    /\ sent <=> broker.link = "up"
    /\ published' = IF sent THEN Append(published, http[t].cmd) ELSE published
    /\ http' = [http EXCEPT ![t] =
           [pc |-> "idle", op |-> http[t].op, cmd |-> http[t].cmd,
            rc |-> IF sent THEN "success" ELSE "no_conn",
            result |-> ReturnedAfterPublish(http[t].op)]]
    /\ UNCHANGED system_status
    /\ NothingButHttp

\* main.py 53-56: GET /api/status serializes the status in one call
GetStatus(t) ==
    /\ http[t].pc = "idle"
    /\ status_read' = Some([value |-> system_status, after |-> last_update])
    /\ UNCHANGED <<system_status, brokerVars, httpVars, visionVars,
                   readerVars, relayVars, bcastVars>>

\* main.py 288-291, 310-313: json.dumps of the status on the asyncio loop (the
\* first message to a new WebSocket client, the message of a status broadcast)
SerializeStatus ==
    /\ status_read' = Some([value |-> system_status, after |-> last_update])
    /\ UNCHANGED <<system_status, brokerVars, httpVars, visionVars,
                   readerVars, relayVars, bcastVars>>

----------------------------------------------------------------------------
(* The broker client's callbacks, on the broker client's thread. *)

\* main.py 172-183: the broker has answered a connection attempt; rc 0 is
\* a connection made
OnMqttConnect(rc) ==
    /\ broker.loop = "running"
    /\ broker.link = "down"
    /\ broker' = [broker EXCEPT !.link = IF rc = 0 THEN "up" ELSE "down"]
    /\ system_status' =
           [system_status EXCEPT !.mqtt_connected = ConnectedAfter(rc)]
    /\ UNCHANGED <<mqtt_client, last_msg, msg_count, last_update, msg_outcome>>
    /\ UNCHANGED <<httpVars, status_read, visionVars, readerVars, relayVars,
                   bcastVars>>

\* main.py 205-208: the connection has ended
OnMqttDisconnect ==
    /\ broker.loop = "running"
    /\ broker' = [broker EXCEPT !.link = "down"]
    /\ system_status' = [system_status EXCEPT !.mqtt_connected = FALSE]
    /\ UNCHANGED <<mqtt_client, last_msg, msg_count, last_update, msg_outcome>>
    /\ UNCHANGED <<httpVars, status_read, visionVars, readerVars, relayVars,
                   bcastVars>>

\* main.py 393-396, the end of cleanup: loop_stop() ends the thread of the
\* callbacks, and disconnect() closes the connection if there is one; the
\* client then calls on_disconnect on the thread disconnect() was called on.
CleanupMqtt ==
    /\ mqtt_client # "None"
    /\ broker.loop = "running"
    /\ broker' = [link |-> "down", loop |-> "stopped"]
    /\ system_status' =
           IF broker.link = "up"
              THEN [system_status EXCEPT !.mqtt_connected = FALSE]
              ELSE system_status
    /\ UNCHANGED <<mqtt_client, last_msg, msg_count, last_update, msg_outcome>>
    /\ UNCHANGED <<httpVars, status_read, visionVars, readerVars, relayVars,
                   bcastVars>>

\* main.py 185-203.  The create_task of line 200 runs on the broker client's
\* thread; whatever the try block raises goes to the handler of line 202.
OnMqttMessage(topic, p) ==
    /\ broker.loop = "running"
    /\ broker.link = "up"
    /\ msg_count < MaxMessages
    /\ msg_count' = msg_count + 1
    /\ last_msg' = Some(p)
    /\ IF Decodes(p) /\ topic = StatusTopic /\ HasGet(p)
          THEN LET made == CreateTask("broker", loop_tasks,
                                       [coro |-> "broadcast_status",
                                        arg |-> NoDetections])
                   exc == IF made.raised THEN "RuntimeError" ELSE "none"
               IN
               /\ system_status' = ApplyStatusUpdate(system_status, p)
               /\ last_update' = Some(p)
               /\ loop_tasks' = made.tasks
               /\ handoff' = [handoff EXCEPT !["broker"] =
                                 IF made.raised THEN "error logged"
                                                ELSE "task created"]
               /\ unserved' = TRUE
               /\ msg_outcome' = Outcome(exc)
          ELSE /\ UNCHANGED <<system_status, last_update, relayVars>>
               /\ msg_outcome' = Outcome(Raised(topic, p))
    /\ UNCHANGED <<mqtt_client, broker, httpVars, status_read, visionVars,
                   readerVars, bcastVars>>

----------------------------------------------------------------------------
(* The perception loop (vision_tracking.py). *)

NothingButVision ==
    UNCHANGED <<brokerVars, httpVars, status_read, readerVars, bcastVars>>

\* main.py 144: initialize() installs on_vision_detection as the hook
SetDetectionCallback ==
    /\ detection_callback = "None"
    /\ detection_callback' = "on_vision_detection"
    /\ UNCHANGED <<is_running, tracking_thread, worker, cycle, current_frame,
                   detections, stop, cap, frame_lock>>
    /\ UNCHANGED <<system_status, relayVars>>
    /\ NothingButVision

\* main.py 343-347 with vision_tracking.py 67-76
StartVisionTracking ==
    /\ stop.pc = "idle"
    /\ IF is_running
          THEN UNCHANGED <<is_running, tracking_thread, worker, stop>>
          ELSE \E w \in Workers :
                  /\ worker[w].pc = "none"
                  /\ \A v \in Workers : worker[v].pc = "none" => w <= v
                  /\ is_running' = TRUE
                  /\ tracking_thread' = w
                  /\ worker' = [worker EXCEPT ![w].pc = "test"]
                  /\ stop' = NoStop
    /\ system_status' = [system_status EXCEPT !.vision_active = TRUE]
    /\ UNCHANGED <<detection_callback, cycle, current_frame, detections, cap,
                   frame_lock>>
    /\ UNCHANGED relayVars
    /\ NothingButVision

WorkerOnly ==
    /\ UNCHANGED <<is_running, detection_callback, tracking_thread, stop, cap>>
    /\ NothingButVision

\* vision_tracking.py 87: while self.is_running
WorkerTest(w) ==
    /\ worker[w].pc = "test"
    /\ worker' = [worker EXCEPT ![w].pc = IF is_running THEN "read" ELSE "exited"]
    /\ UNCHANGED <<cycle, current_frame, detections, system_status, relayVars>>
    /\ UNCHANGED frame_lock
    /\ WorkerOnly

\* vision_tracking.py 89-93: cap.read(); no frame (a released device gives
\* none): wait and start over
WorkerRead(w, ret) ==
    /\ worker[w].pc = "read"
    /\ ret => cap = "open"
    /\ IF ret
          THEN /\ cycle < MaxCycles
               /\ cycle' = cycle + 1
               /\ worker' = [worker EXCEPT ![w].pc = "store_frame",
                                           ![w].frame = cycle + 1]
          ELSE /\ worker' = [worker EXCEPT ![w].pc = "test"]
               /\ UNCHANGED cycle
    /\ UNCHANGED <<current_frame, detections, system_status, relayVars>>
    /\ UNCHANGED frame_lock
    /\ WorkerOnly

\* vision_tracking.py 96: with self.frame_lock, once the lock is free
WorkerLockFrame(w) ==
    /\ worker[w].pc = "store_frame"
    /\ frame_lock = {}
    /\ frame_lock' = Some(w)
    /\ worker' = [worker EXCEPT ![w].pc = "assign_frame"]
    /\ UNCHANGED <<cycle, current_frame, detections, system_status, relayVars>>
    /\ WorkerOnly

\* vision_tracking.py 97: current_frame = frame.copy(), and the block ends
WorkerStoreFrame(w) ==
    /\ worker[w].pc = "assign_frame"
    /\ current_frame' = Some(worker[w].frame)
    /\ frame_lock' = ReleasedOnExit(frame_lock)
    /\ worker' = [worker EXCEPT ![w].pc = "infer"]
    /\ UNCHANGED <<cycle, detections, system_status, relayVars>>
    /\ WorkerOnly

\* vision_tracking.py 100-103: the model and _process_detections give the
\* cycle's list; what either raises is caught at line 116
WorkerInfer(w, raises, objs) ==
    /\ worker[w].pc = "infer"
    /\ IF raises
          THEN worker' = [worker EXCEPT ![w].pc = AfterExcept]
          ELSE worker' = [worker EXCEPT ![w].pc = "store_detections",
                              ![w].dets = [cycle |-> worker[w].frame,
                                           objs |-> objs]]
    /\ UNCHANGED <<cycle, current_frame, detections, system_status, relayVars>>
    /\ UNCHANGED frame_lock
    /\ WorkerOnly

\* vision_tracking.py 106: with self.frame_lock, once the lock is free
WorkerLockDetections(w) ==
    /\ worker[w].pc = "store_detections"
    /\ frame_lock = {}
    /\ frame_lock' = Some(w)
    /\ worker' = [worker EXCEPT ![w].pc = "assign_detections"]
    /\ UNCHANGED <<cycle, current_frame, detections, system_status, relayVars>>
    /\ WorkerOnly

\* vision_tracking.py 107: self.detections = detections, and the block ends
WorkerStoreDetections(w) ==
    /\ worker[w].pc = "assign_detections"
    /\ detections' = worker[w].dets
    /\ frame_lock' = ReleasedOnExit(frame_lock)
    /\ worker' = [worker EXCEPT ![w].pc = "callback"]
    /\ UNCHANGED <<cycle, current_frame, system_status, relayVars>>
    /\ WorkerOnly

\* vision_tracking.py 110-111 with main.py 210-216 (on_vision_detection, run
\* by the worker): the hook is called for a non-empty list when there is a
\* hook, and sets last_detection; with no call, the cycle ends (line 114).
WorkerCallback(w) ==
    /\ worker[w].pc = "callback"
    /\ IF HookIsCalled(detection_callback, worker[w].dets.objs)
          THEN /\ system_status' = [system_status EXCEPT !.last_detection =
                      Some([count |-> Len(worker[w].dets.objs),
                            objects |-> worker[w].dets])]
               /\ worker' = [worker EXCEPT ![w].pc = "closest"]
          ELSE /\ UNCHANGED system_status
               /\ worker' = [worker EXCEPT ![w].pc = "test"]
    /\ UNCHANGED <<cycle, current_frame, detections, relayVars>>
    /\ UNCHANGED frame_lock
    /\ WorkerOnly

\* main.py 219-226, in the hook: find_closest_object() takes its copy of the
\* buffer under frame_lock (vision_tracking.py 199, 163-166), once the lock is
\* free, and scans it; log_operation writes the log file, which is no state
\* of this model, and returns whatever happens in it (data_logger.py 72)
WorkerClosest(w) ==
    /\ worker[w].pc = "closest"
    /\ frame_lock = {}
    /\ worker' = [worker EXCEPT ![w].pc = "handoff"]
    /\ UNCHANGED <<cycle, current_frame, detections, system_status, relayVars>>
    /\ UNCHANGED frame_lock
    /\ WorkerOnly

\* main.py 229 with vision_tracking.py 114-118: the hook's create_task runs
\* on the worker's thread; what it raises leaves the hook and is caught at
\* vision_tracking.py 116.
WorkerHandoff(w) ==
    /\ worker[w].pc = "handoff"
    /\ LET made == CreateTask("worker", loop_tasks,
                              [coro |-> "broadcast_detections",
                               arg |-> worker[w].dets]) IN
       /\ loop_tasks' = made.tasks
       /\ handoff' = [handoff EXCEPT !["worker"] =
                         IF made.raised THEN "error raised" ELSE "task created"]
       /\ unserved' = TRUE
       /\ worker' = [worker EXCEPT ![w].pc =
                        IF made.raised THEN AfterExcept ELSE "test"]
    /\ UNCHANGED <<cycle, current_frame, detections, system_status>>
    /\ UNCHANGED frame_lock
    /\ WorkerOnly

\* The calls in which the worker waits on the camera or on the model
\* (vision_tracking.py 89: self.cap.read(); 100: self.model(frame, ...)), for
\* as long as these take
BlockingCalls == {"read", "infer"}

\* tracking_thread.join(timeout=2.0) (vision_tracking.py 82) has returned:
\* the thread has ended, or the two seconds have passed while it was in one of
\* the blocking calls
JoinEnded(w) == worker[w].pc = "exited"

JoinTimedOut(w) == worker[w].pc \in BlockingCalls

\* How many of the calls of stop_tracking in a row are counted
CountStop(n) == IF n < 2 THEN n + 1 ELSE n

\* main.py 349-351 with vision_tracking.py 78-82, to the join: the flag is
\* cleared; with no tracking_thread attribute there is nothing to join, and
\* stop_vision_tracking goes on to its end (main.py 352)
StopVisionTrackingCall ==
    /\ stop.pc = "idle"
    /\ is_running' = FALSE
    /\ IF tracking_thread = NoThread
          THEN /\ stop' = [pc |-> "idle", returned |-> CountStop(stop.returned),
                           timed_out |-> FALSE]
               /\ system_status' = [system_status EXCEPT !.vision_active = FALSE]
          ELSE /\ stop' = [stop EXCEPT !.pc = "join"]
               /\ UNCHANGED system_status
    /\ UNCHANGED <<detection_callback, tracking_thread, worker, cycle,
                   current_frame, detections, cap, frame_lock>>
    /\ UNCHANGED relayVars
    /\ NothingButVision

\* vision_tracking.py 82-83 with main.py 352-353: the join returns, and
\* stop_tracking and stop_vision_tracking return
StopVisionTrackingReturn ==
    /\ stop.pc = "join"
    /\ \/ /\ JoinEnded(tracking_thread)
          /\ stop' = [pc |-> "idle", returned |-> CountStop(stop.returned),
                      timed_out |-> FALSE]
       \/ /\ JoinTimedOut(tracking_thread)
          /\ stop' = [pc |-> "idle", returned |-> CountStop(stop.returned),
                      timed_out |-> TRUE]
    /\ system_status' = [system_status EXCEPT !.vision_active = FALSE]
    /\ UNCHANGED <<is_running, detection_callback, tracking_thread, worker,
                   cycle, current_frame, detections, cap, frame_lock>>
    /\ UNCHANGED relayVars
    /\ NothingButVision

\* vision_tracking.py 216-221, to the join: VisionTracker.cleanup, which
\* SmartArmBackend.cleanup calls when stop_vision_tracking has returned
\* (main.py 391-392), calls stop_tracking once more; with no thread to join
\* it goes on to release the device
VisionCleanupCall ==
    /\ stop.pc = "idle"
    /\ stop.returned > 0
    /\ ~is_running
    /\ cap = "open"
    /\ IF tracking_thread = NoThread
          THEN /\ cap' = "released"
               /\ UNCHANGED stop
          ELSE /\ stop' = [stop EXCEPT !.pc = "cleanup_join"]
               /\ UNCHANGED cap
    /\ UNCHANGED <<is_running, detection_callback, tracking_thread, worker,
                   cycle, current_frame, detections, frame_lock>>
    /\ UNCHANGED <<system_status, relayVars>>
    /\ NothingButVision

\* vision_tracking.py 82-83, 218-223: the join returns as in stop_tracking,
\* and the capture device is released
VisionCleanupRelease ==
    /\ stop.pc = "cleanup_join"
    /\ \/ /\ JoinEnded(tracking_thread)
          /\ stop' = [stop EXCEPT !.pc = "idle"]
       \/ /\ JoinTimedOut(tracking_thread)
          /\ stop' = [stop EXCEPT !.pc = "idle", !.timed_out = TRUE]
    /\ cap' = "released"
    /\ UNCHANGED <<is_running, detection_callback, tracking_thread, worker,
                   cycle, current_frame, detections, frame_lock>>
    /\ UNCHANGED <<system_status, relayVars>>
    /\ NothingButVision

\* main.py 393-396 after 392: cleanup goes on to the broker client when
\* VisionTracker.cleanup has returned
CleanupBroker ==
    /\ cap = "released"
    /\ stop.pc = "idle"
    /\ CleanupMqtt

\* vision_tracking.py 168-172: get_annotated_frame takes the frame
\* (get_current_frame, under frame_lock) and returns None when there is none
ReaderGetFrame ==
    /\ reader.pc = "idle"
    /\ frame_lock = {}
    /\ IF current_frame = {}
          THEN /\ annotated' = {}
               /\ UNCHANGED reader
          ELSE /\ reader' = [pc |-> "have_frame", frame |-> TheValue(current_frame)]
               /\ UNCHANGED annotated
    /\ UNCHANGED closest
    /\ UNCHANGED <<system_status, brokerVars, httpVars, status_read, visionVars,
                   relayVars, bcastVars>>

\* vision_tracking.py 174-195: then the detections (get_detections, under
\* frame_lock again), which it draws on the frame
ReaderGetDetections ==
    /\ reader.pc = "have_frame"
    /\ frame_lock = {}
    /\ annotated' = Some([frame |-> reader.frame, detections |-> detections])
    /\ reader' = IdleReader
    /\ UNCHANGED closest
    /\ UNCHANGED <<system_status, brokerVars, httpVars, status_read, visionVars,
                   relayVars, bcastVars>>

\* vision_tracking.py 197-214: find_closest_object(target) takes a copy of
\* the detections under frame_lock (get_detections) and scans it
FindClosestObject(target) ==
    /\ frame_lock = {}
    /\ closest' = Some([snapshot |-> detections.objs, target |-> target,
                        result |-> find_closest_object(detections.objs, target)])
    /\ UNCHANGED <<reader, annotated>>
    /\ UNCHANGED <<system_status, brokerVars, httpVars, status_read, visionVars,
                   relayVars, bcastVars>>

----------------------------------------------------------------------------
(* The WebSocket connections and the broadcast rounds, all on the asyncio   *)
(* loop: a task runs until its next await, where the other tasks may run.   *)

NothingButBroadcast ==
    UNCHANGED <<system_status, brokerVars, httpVars, status_read, visionVars,
                readerVars>>

\* The round, told that websocket_handler changed the set while the round was
\* suspended in a send
RoundTold(joined, left) ==
    IF round.pc = "sending"
       THEN [round EXCEPT !.joined = @ \/ joined, !.left = @ \/ left]
       ELSE round

\* main.py 281-291, to the await of the first send: the connection is added
\* to the set and the status serialized
Accept(c) ==
    /\ conn[c] = "none"
    /\ \A b \in Connections : b < c => conn[b] # "none"
    /\ conn' = [conn EXCEPT ![c] = "open"]
    /\ websocket_clients' = websocket_clients \cup {c}
    /\ handler' = [handler EXCEPT ![c] =
           [pc |-> "initial_send", first |-> StatusMessage(system_status, 0)]]
    /\ round' = RoundTold(TRUE, FALSE)
    /\ UNCHANGED <<received, rounds, relayVars>>
    /\ NothingButBroadcast

\* main.py 288-305: the first send returns, and the handler waits for
\* messages; or it raises ConnectionClosed, and the handler discards the
\* connection (line 305)
HandlerInitialSend(c) ==
    /\ handler[c].pc = "initial_send"
    /\ IF SendFails(conn[c])
          THEN /\ websocket_clients' = websocket_clients \ {c}
               /\ round' = RoundTold(FALSE, c \in websocket_clients)
               /\ handler' = [handler EXCEPT ![c].pc = "done"]
               /\ UNCHANGED received
          ELSE /\ received' = [received EXCEPT ![c] = Append(@, handler[c].first)]
               /\ handler' = [handler EXCEPT ![c].pc = "listening"]
               /\ UNCHANGED <<websocket_clients, round>>
    /\ UNCHANGED <<conn, rounds, relayVars>>
    /\ NothingButBroadcast

\* The peer closes the connection, or the connection breaks.
ConnectionLost(c) ==
    /\ conn[c] = "open"
    /\ conn' = [conn EXCEPT ![c] = "closed"]
    /\ UNCHANGED <<websocket_clients, handler, received, round, rounds, relayVars>>
    /\ NothingButBroadcast

\* main.py 294-305: `async for message in websocket` ends when the connection
\* is closed, and the handler discards the connection
HandlerConnectionClosed(c) ==
    /\ handler[c].pc = "listening"
    /\ conn[c] = "closed"
    /\ websocket_clients' = websocket_clients \ {c}
    /\ round' = RoundTold(FALSE, c \in websocket_clients)
    /\ handler' = [handler EXCEPT ![c].pc = "done"]
    /\ UNCHANGED <<conn, received, rounds, relayVars>>
    /\ NothingButBroadcast

\* main.py 307-319 (broadcast_status) and 326-337 (broadcast_detections), to
\* the await of the first send: nothing to do for an empty set; else the
\* message is built once and the iteration over the set itself begins.
RoundBegins(kind, d) ==
    /\ rounds' = rounds + 1
    /\ IF websocket_clients = {}
          THEN round' = [IdleRound EXCEPT !.pc = "done"]
          ELSE \E c \in websocket_clients :
                  round' = [pc |-> "sending",
                            message |-> IF kind = "broadcast_status"
                                THEN StatusMessage(system_status, rounds + 1)
                                ELSE DetectionsMessage(d, rounds + 1),
                            members |-> websocket_clients,
                            visited |-> {c},
                            current |-> c,
                            disconnected |-> {},
                            joined |-> FALSE,
                            left |-> FALSE]
    /\ unserved' = FALSE
    /\ UNCHANGED <<websocket_clients, conn, handler, received>>

\* main.py 229, 212-216: the lists the hook has been called with, of which
\* last_detection keeps the latest
NotifiedLists ==
    IF system_status.last_detection = {}
       THEN {}
       ELSE {TheValue(system_status.last_detection).objects}

\* broadcast_status() or broadcast_detections(d) awaited on the asyncio loop
BroadcastCall(kind, d) ==
    /\ round.pc # "sending"
    /\ rounds < MaxRounds
    /\ RoundBegins(kind, d)
    /\ UNCHANGED <<loop_tasks, handoff>>
    /\ NothingButBroadcast

\* main.py 317-324, 335-341: the send to the current client returns or raises
\* ConnectionClosed; then the iteration takes its next step: it raises when
\* the set changed size, goes on to a client not yet visited, or ends, and the
\* disconnected clients are removed.  When the set was changed and has its old
\* size again, which of its members the iteration still yields is not defined
\* (with so few connections the set's table is never rebuilt, so none twice).
RoundSendReturns ==
    /\ round.pc = "sending"
    /\ SendsReturnInCallOrder(handler[round.current])
    /\ LET c == round.current
           failed == SendFails(conn[c])
           disconnected == IF failed THEN round.disconnected \cup {c}
                                     ELSE round.disconnected
           intact == websocket_clients = round.members
           rest == websocket_clients \ round.visited
       IN  /\ received' = IF failed THEN received
                          ELSE [received EXCEPT ![c] = Append(@, round.message)]
           /\ IF IterationBroken(websocket_clients, round.members)
                 THEN /\ round' = [round EXCEPT !.pc = "aborted",
                                                !.disconnected = disconnected]
                      /\ UNCHANGED websocket_clients
                 ELSE \/ \E n \in rest :
                            /\ round' = [round EXCEPT !.current = n,
                                             !.visited = @ \cup {n},
                                             !.disconnected = disconnected]
                            /\ UNCHANGED websocket_clients
                      \/ /\ rest = {} \/ ~intact
                         /\ round' = [round EXCEPT !.pc = "done",
                                          !.disconnected = disconnected]
                         /\ websocket_clients' =
                                PruneDisconnected(websocket_clients, disconnected)
    /\ UNCHANGED <<conn, handler, rounds, relayVars>>
    /\ NothingButBroadcast

\* main.py 370-374: the asyncio loop runs the tasks created on it; a task
\* made of broadcast_status() or broadcast_detections(d) begins a round, with
\* the list d the coroutine was made with (main.py 229)
LoopRunTask ==
    /\ round.pc # "sending"
    /\ IF loop_tasks # <<>>
          THEN /\ RoundBegins(Head(loop_tasks).coro, Head(loop_tasks).arg)
               /\ loop_tasks' = Tail(loop_tasks)
               /\ UNCHANGED handoff
          ELSE UNCHANGED <<relayVars, bcastVars>>
    /\ NothingButBroadcast

----------------------------------------------------------------------------
(* Specifications. *)

\* The command API under concurrent HTTP requests.
NextControl ==
    \/ InitializeMqtt
    \/ OnMqttConnect(0)
    \/ \E t \in HttpThreads, m \in ModeArgs : SetModeCall(t, m)
    \/ \E t \in HttpThreads, i \in ServoIds, a \in Angles : ManualServoCall(t, i, a)
    \/ \E t \in HttpThreads, s \in Speeds : ManualMotorCall(t, s)
    \/ \E t \in HttpThreads : EmergencyStopCall(t)
    \/ \E t \in HttpThreads : MoveToHomeCall(t)
    \/ \E t \in HttpThreads, sent \in BOOLEAN : Publish(t, sent)

SpecControl == Init /\ [][NextControl]_vars

\* The status store under the broker callbacks, mode changes and status reads.
NextStatus ==
    \/ InitializeMqtt
    \/ OnMqttConnect(0)
    \/ OnMqttConnect(5)
    \/ OnMqttDisconnect
    \/ \E p \in Payloads : OnMqttMessage(StatusTopic, p)
    \/ \E m \in ModeArgs : SetModeCall("t1", m)
    \/ \E sent \in BOOLEAN : Publish("t1", sent)
    \/ GetStatus("t2")
    \/ SerializeStatus

SpecStatus == Init /\ [][NextStatus]_vars

\* The full status messages with five servo angles
RegisterPayloads ==
    {p \in ObjectPayloads : p.servos # {} /\ p.distance # {} /\ p.motor_speed # {}
                                /\ Len(TheValue(p.servos)) = 5}

\* The payloads of the smaller specifications: the full ones and the
\* malformed ones
RelayPayloads ==
    {p \in Payloads :
        \/ p.json # "object"
        \/ p.servos # {} /\ p.distance # {} /\ p.motor_speed # {}}

\* The connection to the broker, from initialize_mqtt to cleanup.
NextLink ==
    \/ InitializeMqtt
    \/ OnMqttConnect(0)
    \/ OnMqttConnect(5)
    \/ OnMqttDisconnect
    \/ CleanupMqtt
    \/ \E p \in RelayPayloads : OnMqttMessage(StatusTopic, p)
    \/ \E m \in ModeArgs : SetModeCall("t1", m)
    \/ \E sent \in BOOLEAN : Publish("t1", sent)

SpecLink == Init /\ [][NextLink]_vars

\* The perception worker and a reader of its buffer.
NextVision ==
    \/ SetDetectionCallback
    \/ StartVisionTracking
    \/ \E w \in Workers : WorkerTest(w)
    \/ \E w \in Workers, ret \in BOOLEAN : WorkerRead(w, ret)
    \/ \E w \in Workers : WorkerLockFrame(w)
    \/ \E w \in Workers : WorkerStoreFrame(w)
    \/ \E w \in Workers, raises \in BOOLEAN, objs \in DetectionLists :
           WorkerInfer(w, raises, objs)
    \/ \E w \in Workers : WorkerLockDetections(w)
    \/ \E w \in Workers : WorkerStoreDetections(w)
    \/ \E w \in Workers : WorkerCallback(w)
    \/ \E w \in Workers : WorkerClosest(w)
    \/ \E w \in Workers : WorkerHandoff(w)
    \/ ReaderGetFrame
    \/ ReaderGetDetections

SpecVision == Init /\ [][NextVision]_vars

\* Starting and stopping the perception loop, from the main thread.
NextStop ==
    \/ SetDetectionCallback
    \/ StartVisionTracking
    \/ StopVisionTrackingCall
    \/ StopVisionTrackingReturn
    \/ \E w \in Workers : WorkerTest(w)
    \/ \E w \in Workers, ret \in BOOLEAN : WorkerRead(w, ret)
    \/ \E w \in Workers : WorkerLockFrame(w)
    \/ \E w \in Workers : WorkerStoreFrame(w)
    \/ \E w \in Workers, raises \in BOOLEAN, objs \in DetectionLists :
           WorkerInfer(w, raises, objs)
    \/ \E w \in Workers : WorkerLockDetections(w)
    \/ \E w \in Workers : WorkerStoreDetections(w)
    \/ \E w \in Workers : WorkerCallback(w)
    \/ \E w \in Workers : WorkerClosest(w)
    \/ \E w \in Workers : WorkerHandoff(w)

SpecStop == Init /\ [][NextStop]_vars

\* Shutdown: cleanup stops the perception loop, releases the capture device
\* and closes the broker client, while the worker and the broker client's
\* thread run.
NextShutdown ==
    \/ SetDetectionCallback
    \/ StartVisionTracking
    \/ StopVisionTrackingCall
    \/ StopVisionTrackingReturn
    \/ VisionCleanupCall
    \/ VisionCleanupRelease
    \/ CleanupBroker
    \/ InitializeMqtt
    \/ OnMqttConnect(0)
    \/ \E p \in RegisterPayloads : OnMqttMessage(StatusTopic, p)
    \/ \E w \in Workers : WorkerTest(w)
    \/ \E w \in Workers, ret \in BOOLEAN : WorkerRead(w, ret)
    \/ \E w \in Workers : WorkerLockFrame(w)
    \/ \E w \in Workers : WorkerStoreFrame(w)
    \/ \E w \in Workers, raises \in BOOLEAN, objs \in DetectionLists :
           WorkerInfer(w, raises, objs)
    \/ \E w \in Workers : WorkerLockDetections(w)
    \/ \E w \in Workers : WorkerStoreDetections(w)
    \/ \E w \in Workers : WorkerCallback(w)
    \/ \E w \in Workers : WorkerClosest(w)
    \/ \E w \in Workers : WorkerHandoff(w)

SpecShutdown == Init /\ [][NextShutdown]_vars

\* Rounds of both kinds while the perception worker changes the buffer and
\* last_detection; broadcast_detections runs with a list the hook was given.
NextFresh ==
    \/ SetDetectionCallback
    \/ StartVisionTracking
    \/ \E w \in Workers : WorkerTest(w)
    \/ \E w \in Workers, ret \in BOOLEAN : WorkerRead(w, ret)
    \/ \E w \in Workers : WorkerLockFrame(w)
    \/ \E w \in Workers : WorkerStoreFrame(w)
    \/ \E w \in Workers, raises \in BOOLEAN, objs \in DetectionLists :
           WorkerInfer(w, raises, objs)
    \/ \E w \in Workers : WorkerLockDetections(w)
    \/ \E w \in Workers : WorkerStoreDetections(w)
    \/ \E w \in Workers : WorkerCallback(w)
    \/ \E w \in Workers : WorkerClosest(w)
    \/ \E w \in Workers : WorkerHandoff(w)
    \/ \E c \in Connections : Accept(c)
    \/ \E c \in Connections : HandlerInitialSend(c)
    \/ BroadcastCall("broadcast_status", NoDetections)
    \/ \E d \in NotifiedLists : BroadcastCall("broadcast_detections", d)
    \/ RoundSendReturns

SpecFresh == Init /\ [][NextFresh]_vars

\* find_closest_object on the buffer a cycle has filled: the state in which
\* the first worker has stored the frame and the list of its first cycle and
\* is about to call the hook.
InitClosest ==
    /\ \E objs \in ClosestLists :
          /\ detections = [cycle |-> 1, objs |-> objs]
          /\ worker = [w \in Workers |->
                          IF w = 1 THEN [pc |-> "callback", frame |-> 1,
                                         dets |-> [cycle |-> 1, objs |-> objs]]
                                   ELSE IdleWorker]
    /\ system_status = [InitialStatus EXCEPT !.vision_active = TRUE]
    /\ is_running = TRUE
    /\ detection_callback = "on_vision_detection"
    /\ tracking_thread = 1
    /\ cycle = 1
    /\ current_frame = Some(1)
    /\ stop = NoStop
    /\ cap = "open"
    /\ frame_lock = {}
    /\ mqtt_client = "None"
    /\ broker = NoBroker
    /\ published = <<>>
    /\ http = [t \in HttpThreads |-> IdleRequest]
    /\ last_msg = {}
    /\ msg_count = 0
    /\ last_update = {}
    /\ msg_outcome = "none"
    /\ status_read = {}
    /\ reader = IdleReader
    /\ annotated = {}
    /\ closest = {}
    /\ loop_tasks = <<>>
    /\ handoff = [th \in CallingThreads |-> "none"]
    /\ unserved = FALSE
    /\ websocket_clients = {}
    /\ conn = [c \in Connections |-> "none"]
    /\ handler = [c \in Connections |-> IdleHandler]
    /\ received = [c \in Connections |-> <<>>]
    /\ round = IdleRound
    /\ rounds = 0

NextClosest ==
    \/ \E t \in Targets : FindClosestObject(t)
    \/ \E w \in Workers : WorkerCallback(w)
    \/ \E w \in Workers : WorkerClosest(w)
    \/ \E w \in Workers : WorkerHandoff(w)
    \/ \E w \in Workers : WorkerTest(w)
    \/ \E w \in Workers : WorkerRead(w, FALSE)

SpecClosest == InitClosest /\ [][NextClosest]_vars

\* The WebSocket connections and broadcast rounds begun on the asyncio loop.
NextBroadcast ==
    \/ \E c \in Connections : Accept(c)
    \/ \E c \in Connections : HandlerInitialSend(c)
    \/ \E c \in Connections : ConnectionLost(c)
    \/ \E c \in Connections : HandlerConnectionClosed(c)
    \/ BroadcastCall("broadcast_status", NoDetections)
    \/ \E d \in BroadcastLists : BroadcastCall("broadcast_detections", d)
    \/ RoundSendReturns

SpecBroadcast == Init /\ [][NextBroadcast]_vars

\* Registration of subscribers while the controller's status messages change
\* the status store.
NextRegister ==
    \/ InitializeMqtt
    \/ OnMqttConnect(0)
    \/ \E p \in RegisterPayloads : OnMqttMessage(StatusTopic, p)
    \/ \E c \in Connections : Accept(c)
    \/ \E c \in Connections : HandlerInitialSend(c)
    \/ \E c \in Connections : ConnectionLost(c)
    \/ BroadcastCall("broadcast_status", NoDetections)
    \/ RoundSendReturns

SpecRegister == Init /\ [][NextRegister]_vars

\* The handoff from the broker client's thread and from the perception worker
\* to the asyncio loop, which runs the tasks created on it.
NextRelay ==
    \/ InitializeMqtt
    \/ OnMqttConnect(0)
    \/ \E p \in RelayPayloads : OnMqttMessage(StatusTopic, p)
    \/ SetDetectionCallback
    \/ StartVisionTracking
    \/ \E w \in Workers : WorkerTest(w)
    \/ \E w \in Workers, ret \in BOOLEAN : WorkerRead(w, ret)
    \/ \E w \in Workers : WorkerLockFrame(w)
    \/ \E w \in Workers : WorkerStoreFrame(w)
    \/ \E w \in Workers, raises \in BOOLEAN, objs \in DetectionLists :
           WorkerInfer(w, raises, objs)
    \/ \E w \in Workers : WorkerLockDetections(w)
    \/ \E w \in Workers : WorkerStoreDetections(w)
    \/ \E w \in Workers : WorkerCallback(w)
    \/ \E w \in Workers : WorkerClosest(w)
    \/ \E w \in Workers : WorkerHandoff(w)
    \/ LoopRunTask

\* The threads keep being scheduled, and the asyncio loop keeps running the
\* tasks created on it (loop.run_forever(), main.py 374).
SpecRelay ==
    Init /\ [][NextRelay]_vars /\ WF_vars(NextRelay) /\ WF_vars(LoopRunTask)

----------------------------------------------------------------------------
(* Properties of the status store (SpecStatus). *)

\* The three fields a controller status message sets, as the update leaves them
UpdateTriple(p) ==
    <<PayloadGet(p.servos, DefaultServos),
      PayloadGet(p.distance, DefaultDistance),
      PayloadGet(p.motor_speed, DefaultMotorSpeed)>>

StatusTriple(st) == <<st.servo_angles, st.distance_cm, st.motor_speed>>

FullPayload(p) ==
    p.json = "object" /\ p.servos # {} /\ p.distance # {} /\ p.motor_speed # {}

\* The fields of the status a controller status message does not name
OtherFields ==
    {"mode", "vision_active", "mqtt_connected", "last_detection", "grab_count",
     "error_message"}

\* A step of on_mqtt_message
MessageStep == msg_count' # msg_count

\* C5: a status read (GET /api/status, or the serialization on the asyncio
\* loop) returns the three controller fields exactly as one whole update left
\* them: those of the last update applied before the read, or the initial ones
\* when there was none; never some fields of an update without the others, nor
\* fields of two updates.
C5_ReadsSeeWholeUpdates ==
    \A r \in status_read :
        StatusTriple(r.value) =
            IF r.after = {} THEN StatusTriple(InitialStatus)
                            ELSE UpdateTriple(TheValue(r.after))

\* C5 witness: a read made after two messages, the second of which changed all
\* three fields, while the mode and the connection flag had changed too.
C5_Witness ==
    \E r \in status_read :
        /\ msg_count = 2
        /\ r.after # {}
        /\ FullPayload(TheValue(r.after))
        /\ r.value.mode = "manual"
        /\ r.value.mqtt_connected

\* C9: a controller status message that carries servos, distance and
\* motor_speed sets servo_angles, distance_cm and motor_speed to the payload's
\* values and leaves every other field of the status as it was.
C9_FullMessageSetsThreeFieldsOnly ==
    [][(MessageStep /\ FullPayload(TheValue(last_msg'))) =>
          LET p == TheValue(last_msg') IN
              /\ system_status'.servo_angles = TheValue(p.servos)
              /\ system_status'.distance_cm = TheValue(p.distance)
              /\ system_status'.motor_speed = TheValue(p.motor_speed)
              /\ \A f \in OtherFields : system_status'[f] = system_status[f]]_vars

\* C9 witness: the message {"servos":[10,20,30,40,50],"distance":12.5,
\* "motor_speed":3} has been applied to a status whose other fields are not
\* the initial ones.
C9_Witness ==
    /\ last_msg # {}
    /\ FullPayload(TheValue(last_msg))
    /\ system_status.servo_angles = <<10, 20, 30, 40, 50>>
    /\ system_status.distance_cm = 125
    /\ system_status.motor_speed = 3
    /\ system_status.mode = "manual"
    /\ system_status.mqtt_connected

\* C10: a controller status message that omits servos, distance or
\* motor_speed leaves the status field of each omitted one as it was.
C10_OmittedFieldsKeepTheirValue ==
    [][(MessageStep /\ TheValue(last_msg').json = "object") =>
          LET p == TheValue(last_msg') IN
              /\ p.servos = {} =>
                     system_status'.servo_angles = system_status.servo_angles
              /\ p.distance = {} =>
                     system_status'.distance_cm = system_status.distance_cm
              /\ p.motor_speed = {} =>
                     system_status'.motor_speed = system_status.motor_speed]_vars

----------------------------------------------------------------------------
(* Properties of the connection to the broker (SpecLink). *)

C20_MalformedMessageDropped ==
    [][(MessageStep /\ TheValue(last_msg') \in MalformedPayloads) =>
          /\ msg_outcome' = "returned"
          /\ system_status' = system_status
          /\ UNCHANGED <<loop_tasks, handoff, unserved>>]_vars

\* C20 witness: after a full update, a message whose payload is a JSON array
\* was handled: the callback returned and the status is that of the update.
C20_Witness ==
    /\ last_msg # {} /\ last_update # {}
    /\ TheValue(last_msg).json = "array"
    /\ FullPayload(TheValue(last_update))
    /\ msg_outcome = "returned"
    /\ StatusTriple(system_status) = UpdateTriple(TheValue(last_update))

\* C21: servo_angles is a sequence of exactly 5 integers in every state,
\* whatever controller messages have been applied.
C21_ServoAnglesAreFiveIntegers ==
    /\ Len(system_status.servo_angles) = 5
    /\ \A i \in 1..Len(system_status.servo_angles) :
           system_status.servo_angles[i] \in Int

----------------------------------------------------------------------------
(* Properties of the command API (SpecControl). *)

ManualOps == {"manual_servo", "manual_motor"}

\* Thread t makes a call of manual_servo_control or manual_motor_control
ManualCallStep(t) ==
    /\ http[t].pc = "idle"
    /\ http'[t] # http[t]
    /\ http'[t].op \in ManualOps

\* C7: manual_servo_control and manual_motor_control called while the mode is
\* not manual return False, publish nothing and change no field of the status.
C7_ManualRejectedOutsideManual ==
    [][\A t \in HttpThreads :
          (ManualCallStep(t) /\ system_status.mode # "manual") =>
              /\ http'[t].pc = "idle"
              /\ http'[t].result = "False"
              /\ published' = published
              /\ system_status' = system_status]_vars

\* C7 witness: with the broker client in place, a manual servo call has
\* returned False while the mode is auto, after commands had been published.
C7_Witness ==
    \E t \in HttpThreads :
        /\ http[t].pc = "idle"
        /\ http[t].op = "manual_servo"
        /\ http[t].result = "False"
        /\ mqtt_client = "client"
        /\ system_status.mode = "auto"
        /\ published # <<>>

\* C8: no SERVO or MOTOR command is published at a moment when the mode is
\* auto, under any interleaving of the HTTP threads.
C8_NoActuationPublishedInAuto ==
    [][(published' # published
            /\ published'[Len(published')][1] \in {"SERVO", "MOTOR"})
          => system_status.mode = "manual"]_vars

\* The methods of the command API that return a bool
BoolOps == {"manual_servo", "manual_motor", "emergency_stop", "move_to_home"}

\* C11: a call of the command API returns success exactly when its publish
\* succeeded, and failure when it did not (the broker link down, say).
\* (Stated for the four methods that return a bool.)
C11_ResultIsPublishOutcome ==
    \A t \in HttpThreads :
        (http[t].pc = "idle" /\ http[t].op \in BoolOps) =>
            (http[t].result = "True" <=> http[t].rc = "success")

\* A decimal integer, as the controller reads a servo id, an angle or a speed
Numerals == {ToString(n) : n \in 0..180}

\* MODE <AUTO|MANUAL>, SERVO <id> <angle>, MOTOR <speed>, STOP, HOME
Grammar ==
    {<<"MODE", "AUTO">>, <<"MODE", "MANUAL">>, <<"STOP">>, <<"HOME">>}
        \cup {<<"SERVO", i, a>> : i \in Numerals, a \in Numerals}
        \cup {<<"MOTOR", v>> : v \in Numerals}

\* C12: every command published on the control topic is a sentence of the
\* grammar MODE <AUTO|MANUAL>, SERVO <id> <angle>, MOTOR <speed>, STOP, HOME.
C12_PublishedMatchesGrammar ==
    \A k \in 1..Len(published) : published[k] \in Grammar

\* What the well-formed requests publish: manual_servo(2, 45) in manual mode
\* has published SERVO 2 45 and returned True.
ServoPublishedWitness ==
    \E t \in HttpThreads :
        /\ http[t].pc = "idle" /\ http[t].op = "manual_servo"
        /\ http[t].result = "True" /\ http[t].rc = "success"
        /\ published[Len(published)] = <<"SERVO", "2", "45">>

----------------------------------------------------------------------------
(* Properties of the detection buffer (SpecVision). *)

\* C6: a read that returns a frame and a detection list (get_annotated_frame)
\* sees the frame and the list of one and the same cycle.  (Stated for the
\* lists a cycle has written: the empty list the buffer starts with is let
\* pass with any frame.)
C6_FrameAndDetectionsOfOneCycle ==
    \A a \in annotated :
        a.detections.cycle # 0 => a.detections.cycle = a.frame

\* The worker calls the hook / the hook makes its create_task
HookStep(w) == worker[w].pc = "callback" /\ worker'[w].pc = "closest"

NotifyStep(w) == worker[w].pc = "handoff" /\ worker'[w].pc # "handoff"

\* C18: the hook is called only for a cycle whose list is not empty, by the
\* worker and after the buffer has been given that list, and the broadcast is
\* handed off after the hook has put the list into last_detection.
C18_HookAfterBufferThenNotify ==
    [][\A w \in Workers :
          /\ HookStep(w) =>
                /\ worker[w].dets.objs # <<>>
                /\ detections = worker[w].dets
                /\ handoff' = handoff /\ loop_tasks' = loop_tasks
          /\ NotifyStep(w) =>
                /\ system_status.last_detection # {}
                /\ TheValue(system_status.last_detection).objects = worker[w].dets
                /\ handoff'["worker"] # "none"]_vars

\* C18 witness: the hook has been called for the list of the second cycle,
\* which is in the buffer and in last_detection, and has made its create_task.
C18_Witness ==
    /\ detections.cycle = 2 /\ detections.objs # <<>>
    /\ system_status.last_detection # {}
    /\ TheValue(system_status.last_detection).objects = detections
    /\ handoff["worker"] # "none"
    /\ \E w \in Workers : worker[w].pc = "test" /\ worker[w].frame = 2

----------------------------------------------------------------------------
(* Properties of stopping the perception loop (SpecStop). *)

\* stop_tracking has returned, and tracking has not been started since
StopReturned == stop.pc = "idle" /\ stop.returned >= 1

\* Where a worker is that has a capture read, a buffer write or a call of the
\* hook before it
InCycle ==
    {"read", "store_frame", "assign_frame", "infer", "store_detections",
     "assign_detections", "callback", "closest", "handoff"}

NoWorkerAlive == \A w \in Workers : worker[w].pc \in {"none", "exited"}

\* C14: when stop_tracking has returned, the worker has exited: it makes no
\* further capture read, buffer write or call of the hook.
C14_NoWorkerActivityAfterStop ==
    StopReturned => \A w \in Workers : worker[w].pc \notin InCycle

\* C15: after a stop, the buffer is left empty or with the frame and the
\* detection list of one and the same cycle.  (Stated for the buffers that
\* hold the list of some cycle, once every worker has ended.)
C15_BufferWholeAfterStop ==
    (StopReturned /\ NoWorkerAlive /\ detections.cycle # 0)
        => current_frame = Some(detections.cycle)

\* stop_tracking was called where it had nothing to stop: on a tracker never
\* started, or after another call of it with no start between
StoppedAgain ==
    /\ stop.pc = "idle"
    /\ stop.returned = 2 \/ (stop.returned = 1 /\ tracking_thread = NoThread)

\* C16: stop_tracking called on a tracker never started, or twice in a row,
\* raises nothing and leaves is_running false and no worker alive.
C16_StopAgainLeavesStopped == StoppedAgain => (~is_running /\ NoWorkerAlive)

\* A call of stop_tracking with nothing to stop changes nothing of the
\* tracker (the steps of the main thread in it, that is).
RepeatedStopChangesNothing ==
    [][((stop'.pc = "join" \/ stop.pc = "join" \/ stop'.returned > stop.returned)
            /\ stop' # stop
            /\ (stop.returned >= 1 \/ tracking_thread = NoThread))
          => (/\ ~is_running'
              /\ UNCHANGED <<is_running, tracking_thread, worker, cycle,
                             current_frame, detections>>)]_vars

\* C17: no capture failure and no exception of the inference ends the worker:
\* after either the worker is at the loop's test again, and a worker ends only
\* at that test and only when is_running has been cleared.
C17_FailuresDoNotEndWorker ==
    [][\A w \in Workers :
          /\ (worker[w].pc \in {"read", "infer"} /\ worker'[w] # worker[w])
                => worker'[w].pc \in {"test", "store_frame", "store_detections"}
          /\ (worker[w].pc # "exited" /\ worker'[w].pc = "exited")
                => (worker[w].pc = "test" /\ ~is_running /\ stop # NoStop)]_vars

\* C17 witness: the inference of the first cycle raised, so that no list was
\* ever stored, and the worker has read the frame of a second cycle.
C17_Witness ==
    \E w \in Workers :
        /\ is_running /\ stop = NoStop
        /\ \A v \in Workers \ {w} : worker[v].pc = "none"
        /\ worker[w].pc = "store_frame"
        /\ worker[w].frame = 2
        /\ detections.cycle = 0

----------------------------------------------------------------------------
(* Properties of find_closest_object (SpecClosest). *)

\* The k-th detection of the call's snapshot is at minimal distance from the
\* target, and is the first that is
FirstNearest(call, k) ==
    LET d(j) == Distance(call.snapshot[j].relative_position, call.target) IN
    /\ \A j \in 1..Len(call.snapshot) : d(k) <= d(j)
    /\ \A j \in 1..(k - 1) : d(k) < d(j)

\* C13: find_closest_object returns None exactly when the snapshot has no
\* detection; otherwise it returns a detection at minimal distance from the
\* target, and of several at that distance the earliest in the list.
C13_ClosestIsFirstNearest ==
    \A call \in closest :
        /\ call.result = {} <=> call.snapshot = <<>>
        /\ call.snapshot # <<>> =>
               \E k \in 1..Len(call.snapshot) :
                   /\ call.result = Some(call.snapshot[k])
                   /\ FirstNearest(call, k)

\* C13 witness: detections at (0.1, 0.1) and (0.9, 0.9), equally far from the
\* target (0.5, 0.5): the first has been returned.
C13_Witness ==
    \E call \in closest :
        /\ call.snapshot = <<Detection(0, 1, 1), Detection(1, 9, 9)>>
        /\ call.target = <<5, 5>>
        /\ call.result = Some(Detection(0, 1, 1))

----------------------------------------------------------------------------
(* Properties of the broadcast rounds (SpecBroadcast). *)

Delivered(c, m) == \E i \in 1..Len(received[c]) : received[c][i] = m

RoundOver == round.pc \in {"done", "aborted"}

\* What a round over the set round.members owes its members
RoundServedItsMembers ==
    /\ round.pc = "done"
    /\ round.visited = round.members
    /\ \A c \in round.members :
           IF c \in round.disconnected
              THEN c \notin websocket_clients
              ELSE /\ Delivered(c, round.message)
                   /\ handler[c].pc # "done" => c \in websocket_clients

\* C1: in one broadcast round over the registered set S, delivery is attempted
\* to every member of S, a member whose delivery fails is removed from the
\* set, the round is not aborted by that failure, and every member whose
\* delivery succeeds has the message and is still registered.  (Stated for
\* the rounds during which no new connection registers.)
C1_RoundDeliversToAllAndPrunesFailed ==
    (RoundOver /\ round.members # {} /\ ~round.joined) => RoundServedItsMembers

\* The same for the rounds during which websocket_handler neither adds to the
\* set nor discards from it: there the round does what C1 says.
UndisturbedRoundServesItsMembers ==
    (RoundOver /\ round.members # {} /\ ~round.joined /\ ~round.left)
        => RoundServedItsMembers

\* Three registered, the delivery to one fails: two remain, both served.
UndisturbedRoundWitness ==
    /\ round.pc = "done"
    /\ ~round.joined /\ ~round.left
    /\ Cardinality(round.members) = 3
    /\ Cardinality(round.disconnected) = 1
    /\ Cardinality(websocket_clients) = 2
    /\ \A c \in websocket_clients : Delivered(c, round.message)

\* C2: a round iterates over a snapshot of the set and removes after the
\* iteration, so that a connection registered or discarded while the round is
\* suspended in a send neither aborts the round nor changes whom it visits.
C2_RoundIteratesOverASnapshot ==
    /\ round.pc # "aborted"
    /\ round.pc = "done" => round.visited = round.members

----------------------------------------------------------------------------
(* Properties of the handoff to the asyncio loop (SpecRelay). *)

\* C3: every notification (a controller status message handled, a non-empty
\* detection cycle) is eventually followed by a broadcast round on the asyncio
\* loop, the loop running.
C3_NotificationLeadsToRound == unserved ~> ~unserved

\* C4: the handoff called on the broker client's thread or on the perception
\* worker creates a task on the asyncio loop and returns normally.
C4_HandoffCreatesTaskFromAnyThread ==
    \A th \in CallingThreads : handoff[th] \in {"none", "task created"}

----------------------------------------------------------------------------
(* Properties of registration and removal of subscribers (SpecRegister,
   SpecBroadcast). *)

\* C22: accepting a connection adds it to the live set and serializes the
\* status of that moment into a 'status' message, and the first message a
\* connection receives is that one.
RegisterStep(c) ==
    conn[c] = "none" /\ conn'[c] = "open"
        => /\ c \in websocket_clients'
           /\ handler'[c].first = StatusMessage(system_status, 0)

FirstReceivedIsSnapshot(c) ==
    received[c] # <<>>
        => /\ received[c][1].type = "status"
           /\ received[c][1] = handler[c].first

C22_FirstMessageIsStatusAtRegistration ==
    /\ [][\A c \in Connections : RegisterStep(c)]_vars
    /\ [](\A c \in Connections : FirstReceivedIsSnapshot(c))

\* a connection registered after the status store was updated has received
\* the updated status first and a round's message after it
C22_Witness ==
    \E c \in Connections :
        /\ Len(received[c]) = 2
        /\ received[c][1] = handler[c].first
        /\ received[c][1].status # Some(InitialStatus)
        /\ received[c][2].round > 0

\* A connection enters the live set only when it is accepted, so one that was
\* removed is never in the set again; and a handler that ends removes its own
\* connection and nothing else, whether or not a round had removed it before.
RemovedStaysOut(c) ==
    c \notin websocket_clients /\ c \in websocket_clients' => conn[c] = "none"

UnregisterStep(c) ==
    handler[c].pc # "done" /\ handler'[c].pc = "done"
        => websocket_clients' = websocket_clients \ {c}

UnregisterIsIdempotentAndFinal ==
    [][\A c \in Connections : RemovedStaysOut(c) /\ UnregisterStep(c)]_vars

\* a handler ended for a connection that a round had already removed
UnregisterAfterPruneWitness ==
    \E c \in Connections :
        /\ handler[c].pc = "done"
        /\ c \in round.disconnected
        /\ round.pc = "done"
        /\ websocket_clients # {}

\* C23: when a round is over, no subscriber whose push failed in it is still
\* in the live set (a subscriber is removed on its first failed push).
C23_FailedPushRemovesSubscriber ==
    RoundOver => round.disconnected \cap websocket_clients = {}

----------------------------------------------------------------------------
(* Properties of shutdown (SpecShutdown). *)

\* C24: once cleanup has released the capture device, the perception worker
\* writes neither the frame, nor the detection list, nor last_detection (the
\* writer was stopped before its resource was released).
C24_NoWriteAfterRelease ==
    [][cap = "released"
          => /\ current_frame' = current_frame
             /\ detections' = detections
             /\ system_status'.last_detection = system_status.last_detection]_vars

\* The broker client's thread handles no message once cleanup has stopped it.
BrokerQuietAfterCleanup ==
    [][broker.loop = "stopped" => msg_count' = msg_count]_vars

----------------------------------------------------------------------------
(* Properties of what a round sends (SpecFresh, SpecRegister). *)

RoundBeginsStep == rounds' = rounds + 1 /\ round'.pc = "sending"

\* A round of broadcast_status sends the status store as it is when the
\* round begins.
StatusRoundSendsCurrentStatus ==
    [][(RoundBeginsStep /\ round'.message.type = "status")
          => round'.message.status = Some(system_status)]_vars

\* a round of broadcast_status began after the status store was changed
StatusRoundWitness ==
    /\ round.pc = "sending"
    /\ round.message.type = "status"
    /\ round.message.status # Some(InitialStatus)

\* C25: the message of a round carries the status store, or the detection
\* buffer, as it is when the round begins.
C25_RoundSendsCurrentStores ==
    [][RoundBeginsStep
          => \/ round'.message = StatusMessage(system_status, rounds')
             \/ round'.message = DetectionsMessage(detections, rounds')]_vars

----------------------------------------------------------------------------
(* Properties of the buffer lock (SpecVision). *)

\* Where a worker is while it is inside a block of `with self.frame_lock`
InsideWith == {"assign_frame", "assign_detections"}

\* C26: the worker holds frame_lock only inside the two assignments: not in
\* the capture read, the inference or the hook, so the hook's
\* find_closest_object finds the lock not held by its own thread, and a
\* reader is not kept waiting by an inference.
C26_LockHeldOnlyDuringAssignment ==
    \A w \in Workers :
        /\ frame_lock = Some(w) => worker[w].pc \in InsideWith
        /\ worker[w].pc \in InsideWith => frame_lock = Some(w)

\* the hook has taken and released the lock in find_closest_object, after
\* the worker's two assignments of the cycle, and a reader has read the frame
\* meanwhile
C26_Witness ==
    \E w \in Workers :
        /\ worker[w].pc = "handoff"
        /\ frame_lock = {}
        /\ current_frame = Some(worker[w].frame)
        /\ detections = worker[w].dets
        /\ reader.pc = "have_frame"

----------------------------------------------------------------------------
(* Properties of the number of workers (SpecStop). *)

WorkersAlive == {w \in Workers : worker[w].pc \notin {"none", "exited"}}

\* start_tracking called while is_running is set creates no worker.
StartWhileRunningCreatesNoWorker ==
    [][is_running => \A w \in Workers :
                        worker[w].pc = "none" => worker'[w].pc = "none"]_vars

\* C27: whatever the calls of start and stop, at most one perception worker
\* is alive at any time.
C27_AtMostOneWorkerAlive == Cardinality(WorkersAlive) <= 1

----------------------------------------------------------------------------
(* Properties of the mode (SpecStatus). *)

Modes == {"auto", "manual"}

\* A thread's call of set_mode
SetModeStep(t) ==
    /\ http[t].pc = "idle"
    /\ http'[t].op = "set_mode"
    /\ \A u \in HttpThreads \ {t} : http'[u] = http[u]

\* C28: mode is auto or manual in every state; it changes in a call of
\* set_mode only, to the value asked for; and the MODE commands handed to the
\* broker client and published are those of the two modes, so a call with
\* another value changes nothing and publishes nothing.
C28_ModeIsAutoOrManual ==
    /\ [](system_status.mode \in Modes)
    /\ [](\A i \in 1..Len(published) :
              published[i][1] = "MODE" => published[i][2] \in {"AUTO", "MANUAL"})
    /\ [][system_status'.mode # system_status.mode
              => \E t \in HttpThreads : SetModeStep(t)]_vars
    /\ [][\A t \in HttpThreads :
              (SetModeStep(t) /\ http'[t].pc = "publish")
                  => /\ http'[t].cmd = ModeCommand(system_status'.mode)
                     /\ system_status'.mode \in Modes]_vars

\* with the broker client in place and MODE MANUAL published, set_mode was
\* called with a value that is no mode: the call has ended with no publish,
\* the mode is still manual, and a controller message has been applied since
C28_Witness ==
    /\ mqtt_client = "client"
    /\ published = <<ModeCommand("manual")>>
    /\ http["t1"] = [IdleRequest EXCEPT !.op = "set_mode"]
    /\ system_status.mode = "manual"
    /\ last_update # {}

----------------------------------------------------------------------------
(* Properties of errors raised in the detection hook (SpecStop). *)

\* The hook raises on worker w: its create_task fails
HookRaisesStep(w) ==
    /\ worker[w].pc = "handoff"
    /\ worker'[w].pc # "handoff"
    /\ handoff'["worker"] = "error raised"

\* C29: an error raised in the hook leaves the worker at the loop's test,
\* with the buffer and last_detection as the cycle has set them; from the
\* test the worker goes on to the next capture read when is_running is set,
\* and ends only when it is not.
C29_HookErrorDoesNotEndWorker ==
    [][\A w \in Workers :
          /\ HookRaisesStep(w)
                => /\ worker'[w].pc = "test"
                   /\ current_frame' = current_frame
                   /\ detections' = detections
                   /\ system_status' = system_status
          /\ (worker[w].pc = "test" /\ worker'[w].pc # "test")
                => worker'[w].pc = IF is_running THEN "read" ELSE "exited"]_vars

\* the hook raised in the first cycle, and the same worker has stored the
\* list of a second cycle and is about to call the hook again
C29_Witness ==
    \E w \in Workers :
        /\ handoff["worker"] = "error raised"
        /\ is_running
        /\ worker[w].pc = "callback"
        /\ worker[w].dets.cycle = 2
        /\ detections = worker[w].dets
        /\ system_status.last_detection # {}
        /\ TheValue(system_status.last_detection).objects.cycle = 1

====
